---- MODULE Spec2Model ----
(***************************************************************************)
(* vite-plugin-hono-api: the plugin object returned by honoPlugin(), its   *)
(* hooks (config, configResolved, configEnvironment, buildStart,           *)
(* closeBundle, configureServer), the builder's buildApp, copyDeployFiles  *)
(* and the dev middleware handleRequest, as a state machine.               *)
(*                                                                         *)
(* Strings that the code slices or compares by prefix (URLs, paths of a    *)
(* URL, basePath) are sequences of characters.  The alphabet is small:     *)
(* "/" and "?" are themselves, every other symbol ("api", "x", ...) is one *)
(* character of the alphabet, written with a readable name.  File system   *)
(* paths are sequences of path segments, "/" first when absolute.          *)
(***************************************************************************)
EXTENDS Integers, Sequences, FiniteSets, TLC

(***************************** bounds **************************************)
\* middlewares a dev server lets the plugin register
MaxMiddlewares == 2
\* characters of a request URL
MaxUrlLen == 5
\* requests the dev server hands to the middleware
MaxRequests == 2
\* chunks of a request body or of a response body
MaxChunks == 2
\* environments a builder holds
MaxTargets == 2

(************************* program constants *******************************)
HONO_ENTRY == "hono/index.ts"
WRAPPER_FILE == ".hono-server.mjs"
DefaultBasePath == <<"/", "api">>
DefaultPort == 4173
DefaultHost == <<"localhost:5173">>
DefaultProtocol == <<"http">>
DeployFiles == <<"package.json", "package-lock.json", "pnpm-lock.yaml", "yarn.lock", "bun.lockb">>
StartScripts == [t |-> "object", fields |-> [start |-> [t |-> "string", s |-> "node server.js"]]]

(************************* the world of a run ******************************)
\* process.cwd() and the other directory a project may live in
Cwd == <<"/", "cwd">>
OtherRoot == <<"/", "proj">>
Roots == {Cwd, OtherRoot}

\* hook contexts: this.environment is an environment object, or is missing
Envs == {"client", "ssr", "server"}
NoEnv == "none"
Contexts == Envs \cup {NoEnv}

\* plugin options a user passes: omitted, or custom values
CustomBasePath == <<"/", "x">>
CustomPort == 9090
NoOption == [given |-> FALSE]
OptionSets == { [basePath |-> NoOption, port |-> NoOption],
                [basePath |-> [given |-> TRUE, value |-> CustomBasePath],
                 port |-> [given |-> TRUE, value |-> CustomPort]] }

(************************* file system *************************************)
Absent == [kind |-> "absent"]
SourceFile == [kind |-> "source"]
UserFile == [kind |-> "user"]

\* node:path join of a directory and a relative path
join(dir, rel) == dir \o rel

\* a relative path is resolved against the working directory of the process
Resolve(path) == IF Len(path) > 0 /\ path[1] = "/" THEN path ELSE join(Cwd, path)

EntryPathOf(root) == join(root, <<HONO_ENTRY>>)
WrapperPathOf(root) == join(root, <<WRAPPER_FILE>>)

Paths == UNION { {EntryPathOf(r), WrapperPathOf(r)} : r \in Roots }
         \cup { join(r, <<DeployFiles[i]>>) : r \in Roots, i \in 1..Len(DeployFiles) }
         \cup { join(r, <<"dist", DeployFiles[i]>>) : r \in Roots, i \in 1..Len(DeployFiles) }

VARIABLES
  \* honoPlugin's closure
  options, projectRoot, wrapperPath, honoEntryPath, hasHonoEntry, runCommand,
  wrapperPrimed, environmentState,
  \* the host and the machine the plugin runs on
  root, fs, resolvable, warnings, middlewares, returnedConfig, serverSsr,
  \* history of the run
  writes, wrapperWrites, stage, phase, orderly,
  \* buildApp
  targets, buildCalls, buildStatus, appPc, copyLog,
  \* handleRequest
  req, pc, nextCalls, resLog, resState, loadLog, fetched, response, chunks,
  inbox, moduleNode, loadedModule, requests,
  \* what the host learnt from applyToEnvironment, and the generated server
  \* once it was started
  applied, launched

closureVars == <<options, projectRoot, wrapperPath, honoEntryPath, hasHonoEntry,
                 runCommand, wrapperPrimed, environmentState>>
hostVars == <<root, fs, resolvable, warnings, middlewares, returnedConfig, serverSsr>>
historyVars == <<writes, wrapperWrites, stage, phase, orderly>>
buildVars == <<targets, buildCalls, buildStatus, appPc, copyLog>>
reqVars == <<req, pc, nextCalls, resLog, resState, loadLog, fetched, response, chunks,
             inbox, moduleNode, loadedModule, requests>>
runVars == <<applied, launched>>
vars == <<closureVars, hostVars, historyVars, buildVars, reqVars, runVars>>

(************************* helpers of the plugin ***************************)
\* const { basePath = '/api', port = 4173 } = options
basePath == IF options.basePath.given THEN options.basePath.value ELSE DefaultBasePath
port == IF options.port.given THEN options.port.value ELSE DefaultPort

\* statSync(path).isFile() on the files given, false when stat throws
isFile(files, path) == Resolve(path) \in DOMAIN files /\ files[Resolve(path)].kind # "absent"
fileExistsAlways(path) == TRUE
fileExists(path) == isFile(fs, path)

dependencyExistsAlways(specifier) == TRUE
\* requireFromPlugin.resolve(specifier) succeeds
dependencyExists(specifier) == specifier \in resolvable

\* A block of the generated switch: the static middlewares it registers, the
\* object it reads PORT from with the port it falls back to, and how it
\* starts the server.
staticFiles ==
  << [op |-> "use", path |-> "*", root |-> "./frontend", file |-> "any"],
     [op |-> "get", path |-> "*", root |-> "./frontend", file |-> "index.html"] >>
blockWithoutFallback(envObject, p, start) ==
  [static |-> <<staticFiles[1]>>, env |-> envObject, fallback |-> p, start |-> start]
block(envObject, p, start) ==
  [static |-> staticFiles, env |-> envObject, fallback |-> p, start |-> start]

\* the text generateWrapper returns, as the program it is: the route the api
\* is mounted on, the globals the runtime detection tests in their order, and
\* the block of each runtime
generateWrapper(bp, p) ==
  [kind |-> "wrapper",
   route |-> bp,
   detect |-> << [global |-> "Deno", runtime |-> "deno"],
                 [global |-> "Bun", runtime |-> "bun"] >>,
   blocks |-> [deno |-> block("Deno.env", p, "Deno.serve"),
               bun |-> block("process.env", p, "export default { port, fetch }"),
               node |-> block("process.env", p, "serve")]]

\* `./${WRAPPER_FILE}`
WrapperSsr == "./" \o WRAPPER_FILE
ssrEntryOfDev(command) == HONO_ENTRY
ssrEntryOfBuild(command) == WrapperSsr
\* runCommand === 'build' ? `./${WRAPPER_FILE}` : HONO_ENTRY
ssrEntry(command) == IF command = "build" THEN WrapperSsr ELSE HONO_ENTRY

\* writeFileSync(path, content)
writeFile(files, path, content) == [files EXCEPT ![Resolve(path)] = content]
unlinkNothing(files, path) == files
\* unlinkSync(path)
unlink(files, path) == [files EXCEPT ![Resolve(path)] = Absent]

(************************* messages the plugin logs ************************)
\* a message is the sequence of the pieces its template is made of
EntryNotFoundResolved ==
  <<"[warning] ", HONO_ENTRY, " not found",
    ". Hono API will not be available until you create it.">>
EntryNotFoundServer ==
  <<"[warning] ", HONO_ENTRY, " not found",
    ". Hono API middleware disabled.", "Create this file to enable the API: ...">>
NodeServerMissing ==
  <<"[warning] ", "Optional dependency @hono/node-server is missing",
    ". Node.js runtime mode will fail at runtime.">>

(************************* what config returns *****************************)
NotCalled == [kind |-> "none"]
EmptyConfig == [kind |-> "empty"]
Thrown == [kind |-> "thrown"]
FullConfig(command) ==
  [kind |-> "config",
   build |-> [outDir |-> "dist/frontend", emptyOutDir |-> TRUE],
   server |-> [outDir |-> "dist", ssr |-> ssrEntry(command), copyPublicDir |-> FALSE,
               emptyOutDir |-> FALSE, entryFileNames |-> "server.js", format |-> "esm"],
   builder |-> TRUE]

(************************* applyToEnvironment ******************************)
\* names of environments a host may hold
EnvNames == Envs \cup {"custom"}
\* the answers the host has got, by name of environment
NotApplied == <<>>

applyToServerOnly(environment) == environment.name = "server"
\* applyToEnvironment(environment)
applyToEnvironment(environment) ==
  environment.name = "server" \/ environment.name = "ssr"

\* the host asks whether the plugin applies to an environment
hostFilters(name) ==
  /\ applied' = (name :> applyToEnvironment([name |-> name])) @@ applied
  /\ UNCHANGED <<closureVars, hostVars, historyVars, buildVars, reqVars, launched>>

(************************* the generated server ****************************)
\* the runtimes the server is started on: the globals each of them defines
\* (a host may define both, with a polyfill of the other runtime)
Runtimes == { {"Deno"}, {"Bun"}, {}, {"Deno", "Bun"} }
\* the PORT variable of the environment: unset, or a string
Unset == [set |-> FALSE]
PortEnvs == {Unset, [set |-> TRUE, value |-> "8080"], [set |-> TRUE, value |-> ""]}
NotStarted == [ran |-> FALSE]

\* Number(value) for the strings of PortEnvs
toNumber(value) == IF value = "" THEN 0 ELSE 8080

\* the IIFE of the generated file: the first global of `detect` that is
\* defined names the runtime, 'node' when none is
RECURSIVE detectRuntime(_, _, _)
detectRuntime(tests, globals, i) ==
  IF i > Len(tests) THEN "node"
  ELSE IF tests[i].global \in globals THEN tests[i].runtime
  ELSE detectRuntime(tests, globals, i + 1)

serverPortOfOptions(blk, portEnv) == blk.fallback
\* Number(env.PORT ?? fallback)
serverPort(blk, portEnv) == IF portEnv.set THEN toNumber(portEnv.value) ELSE blk.fallback

\* the module of the generated file evaluated on a runtime: the calls on app
\* in their order and the servers that listen afterwards (Bun serves the
\* default export that has a port and a fetch)
runWrapper(text, globals, portEnv) ==
  LET runtime == detectRuntime(text.detect, globals, 1)
      blk == text.blocks[runtime]
  IN [ran |-> TRUE, globals |-> globals, portEnv |-> portEnv, runtime |-> runtime,
      calls |-> <<[op |-> "route", path |-> text.route]>> \o blk.static,
      portFrom |-> blk.env,
      servers |-> <<[by |-> blk.start, port |-> serverPort(blk, portEnv)]>>]

\* the built server is started: the wrapper the plugin wrote is its entry
serverStarts(globals, portEnv) ==
  /\ fileExists(wrapperPath)
  /\ fs[Resolve(wrapperPath)].kind = "wrapper"
  /\ launched' = runWrapper(fs[Resolve(wrapperPath)], globals, portEnv)
  /\ UNCHANGED <<closureVars, hostVars, historyVars, buildVars, reqVars, applied>>

(************************* history of the run ******************************)
\* The host follows the order of one Vite build while `orderly` holds: config
\* once, then configResolved once, then for every context buildStart once and
\* closeBundle once after it.  stage and phase say how far that build is.
NoPhase == [c \in Contexts |-> "none"]

Called(inOrder, newStage, newPhase) ==
  /\ orderly' = (orderly /\ inOrder)
  /\ stage' = IF orderly /\ inOrder THEN newStage ELSE "off"
  /\ phase' = IF orderly /\ inOrder THEN newPhase ELSE NoPhase

(************************* the hooks ***************************************)
\* config(userConfig, env): userConfig.root is given or not, env.command is
\* 'build', 'serve' or missing
config(command, rootGiven) ==
  LET newRoot == IF rootGiven THEN root ELSE Cwd
      exists == fileExists(join(newRoot, <<HONO_ENTRY>>))
      cmd == IF command = "undefined" THEN "serve" ELSE command
      result == IF ~exists THEN EmptyConfig
                ELSE IF ~dependencyExists("hono") THEN Thrown
                ELSE FullConfig(cmd)
  IN /\ (root # Cwd => rootGiven)
     /\ Called(stage = "new", "configured", phase)
     /\ runCommand' = cmd
     /\ projectRoot' = newRoot
     /\ wrapperPath' = join(newRoot, <<WRAPPER_FILE>>)
     /\ honoEntryPath' = join(newRoot, <<HONO_ENTRY>>)
     /\ hasHonoEntry' = exists
     /\ returnedConfig' = result
     \* the host merges the returned configuration into its own
     /\ serverSsr' = IF result.kind = "config" THEN result.server.ssr ELSE serverSsr
     /\ UNCHANGED <<options, wrapperPrimed, environmentState, root, fs, resolvable,
                    warnings, middlewares, writes, wrapperWrites, buildVars, reqVars,
                    runVars>>

\* configResolved(config): config.root is the project root; hasServerBuild
\* says whether config.environments.server.build is there
configResolved(hasServerBuild) ==
  LET newWrapper == join(root, <<WRAPPER_FILE>>)
      exists == fileExists(join(root, <<HONO_ENTRY>>))
      prime == exists /\ runCommand = "build" /\ ~wrapperPrimed
  IN /\ Called(stage = "configured", "resolved", phase)
     /\ projectRoot' = root
     /\ wrapperPath' = newWrapper
     /\ honoEntryPath' = join(root, <<HONO_ENTRY>>)
     /\ hasHonoEntry' = exists
     /\ serverSsr' = IF exists /\ runCommand = "build" /\ hasServerBuild
                     THEN WrapperSsr ELSE serverSsr
     /\ fs' = IF prime THEN writeFile(fs, newWrapper, generateWrapper(basePath, port)) ELSE fs
     /\ writes' = IF prime THEN writes \cup {Resolve(newWrapper)} ELSE writes
     /\ wrapperWrites' = IF prime THEN wrapperWrites + 1 ELSE wrapperWrites
     /\ wrapperPrimed' = (wrapperPrimed \/ prime)
     /\ warnings' = warnings
          \cup (IF ~exists THEN {EntryNotFoundResolved} ELSE {})
          \cup (IF exists /\ ~dependencyExists("@hono/node-server")
                THEN {NodeServerMissing} ELSE {})
     /\ UNCHANGED <<options, runCommand, environmentState, root, resolvable, middlewares,
                    returnedConfig, buildVars, reqVars, runVars>>

\* configEnvironment(name, environmentConfig)
configEnvironment(name) ==
  /\ Called(TRUE, stage, phase)
  /\ serverSsr' = IF name # "server" \/ ~hasHonoEntry THEN serverSsr ELSE ssrEntry(runCommand)
  /\ UNCHANGED <<closureVars, root, fs, resolvable, warnings, middlewares, returnedConfig,
                 writes, wrapperWrites, buildVars, reqVars, runVars>>

\* buildStart without the test of wrapperPrimed
buildStartAlwaysWrites(ctx) ==
  LET active == runCommand = "build" /\ hasHonoEntry /\ ctx # NoEnv
      first == active /\ ctx \notin environmentState
  IN /\ Called(stage = "resolved" /\ phase[ctx] = "none", stage,
               [phase EXCEPT ![ctx] = "started"])
     /\ fs' = IF first THEN writeFile(fs, wrapperPath, generateWrapper(basePath, port)) ELSE fs
     /\ writes' = IF first THEN writes \cup {Resolve(wrapperPath)} ELSE writes
     /\ wrapperWrites' = IF first THEN wrapperWrites + 1 ELSE wrapperWrites
     /\ wrapperPrimed' = (wrapperPrimed \/ first)
     /\ environmentState' = IF first THEN environmentState \cup {ctx} ELSE environmentState
     /\ UNCHANGED <<options, projectRoot, wrapperPath, honoEntryPath, hasHonoEntry,
                    runCommand, root, resolvable, warnings, middlewares, returnedConfig,
                    serverSsr, buildVars, reqVars, runVars>>

\* buildStart(), this.environment being ctx
buildStart(ctx) ==
  LET active == runCommand = "build" /\ hasHonoEntry /\ ctx # NoEnv
      first == active /\ ctx \notin environmentState
      prime == first /\ ~wrapperPrimed
  IN /\ Called(stage = "resolved" /\ phase[ctx] = "none", stage,
               [phase EXCEPT ![ctx] = "started"])
     /\ fs' = IF prime THEN writeFile(fs, wrapperPath, generateWrapper(basePath, port)) ELSE fs
     /\ writes' = IF prime THEN writes \cup {Resolve(wrapperPath)} ELSE writes
     /\ wrapperWrites' = IF prime THEN wrapperWrites + 1 ELSE wrapperWrites
     /\ wrapperPrimed' = (wrapperPrimed \/ prime)
     /\ environmentState' = IF first THEN environmentState \cup {ctx} ELSE environmentState
     /\ UNCHANGED <<options, projectRoot, wrapperPath, honoEntryPath, hasHonoEntry,
                    runCommand, root, resolvable, warnings, middlewares, returnedConfig,
                    serverSsr, buildVars, reqVars, runVars>>

\* closeBundle(), this.environment being ctx
closeBundle(ctx) ==
  LET remove == ctx = NoEnv \/ ctx \in environmentState
  IN /\ Called(phase[ctx] = "started", stage,
               [phase EXCEPT ![ctx] = "closed"])
     \* removeWrapper
     /\ fs' = IF remove /\ fileExists(wrapperPath) THEN unlink(fs, wrapperPath) ELSE fs
     /\ wrapperWrites' = IF remove /\ fileExists(wrapperPath) THEN 0 ELSE wrapperWrites
     /\ wrapperPrimed' = IF remove THEN FALSE ELSE wrapperPrimed
     /\ environmentState' = environmentState \ {ctx}
     /\ UNCHANGED <<options, projectRoot, wrapperPath, honoEntryPath, hasHonoEntry,
                    runCommand, root, resolvable, warnings, middlewares, returnedConfig,
                    serverSsr, writes, buildVars, reqVars, runVars>>

\* configureServer(server)
configureServer ==
  /\ hasHonoEntry => middlewares < MaxMiddlewares
  /\ Called(TRUE, stage, phase)
  /\ warnings' = IF ~hasHonoEntry THEN warnings \cup {EntryNotFoundServer} ELSE warnings
  \* server.middlewares.use(...)
  /\ middlewares' = IF ~hasHonoEntry THEN middlewares ELSE middlewares + 1
  /\ UNCHANGED <<closureVars, root, fs, resolvable, returnedConfig, serverSsr, writes,
                 wrapperWrites,
                 buildVars, reqVars, runVars>>

(************************* copyDeployFiles *********************************)
\* JSON values: [t |-> "object", fields |-> f], [t |-> "array"], [t |-> "null"],
\* [t |-> "string", s |-> ...].  A file whose text is JSON is
\* [kind |-> "json", value, indent, newline]; any other file does not parse.

\* readJsonFile(path): JSON.parse(readFileSync(path, 'utf8'))
readJsonFile(files, path) ==
  LET file == files[Resolve(path)]
  IN IF file.kind = "json" THEN [ok |-> TRUE, value |-> file.value] ELSE [ok |-> FALSE]

\* typeof value === 'object' && value !== null && !Array.isArray(value)
isJsonRecord(value) == value.t = "object"

pkgUntouched(pkgRaw) == pkgRaw
\* { ...pkgRaw, scripts: { start: 'node server.js' } }
pkgWithScripts(pkgRaw) ==
  [t |-> "object",
   fields |-> [f \in DOMAIN pkgRaw.fields \cup {"scripts"} |->
                 IF f = "scripts" THEN StartScripts ELSE pkgRaw.fields[f]]]

\* JSON.stringify(value, null, 2) + '\n'
stringifyPretty(value) == [kind |-> "json", value |-> value, indent |-> 2, newline |-> TRUE]

\* the loop of copyDeployFiles from its i-th file on; `state` holds the files,
\* the paths written so far and whether an exception left the loop
RECURSIVE copyLoop(_, _, _, _)
copyLoop(i, state, targetDir, workingDir) ==
  IF i > Len(DeployFiles) \/ state.threw THEN state
  ELSE LET file == DeployFiles[i]
           path == join(workingDir, <<file>>)
           dest == join(targetDir, <<file>>)
           exists == isFile(state.files, path)
           parsed == readJsonFile(state.files, path)
       IN IF ~exists THEN copyLoop(i + 1, state, targetDir, workingDir)
          ELSE IF file = "package.json"
          THEN IF ~parsed.ok \/ ~isJsonRecord(parsed.value)
               THEN [state EXCEPT !.threw = TRUE]
               ELSE copyLoop(i + 1,
                      [state EXCEPT
                         !.files = writeFile(@, dest, stringifyPretty(pkgWithScripts(parsed.value))),
                         !.written = @ \cup {Resolve(dest)}],
                      targetDir, workingDir)
          ELSE copyLoop(i + 1,
                 [state EXCEPT !.files = writeFile(@, dest, state.files[Resolve(path)]),
                               !.written = @ \cup {Resolve(dest)}],
                 targetDir, workingDir)

\* copyDeployFiles(targetDir, workingDir)
copyDeployFiles(files, targetDir, workingDir) ==
  copyLoop(1, [files |-> files, written |-> {}, threw |-> FALSE], targetDir, workingDir)

(************************* buildApp ****************************************)
\* builder.environments as declared: a sequence of [name, defined]
Entries == [name : Envs, defined : BOOLEAN]
RECURSIVE SeqsUpTo(_, _)
SeqsUpTo(S, n) == IF n = 0 THEN {<<>>}
                  ELSE LET shorter == SeqsUpTo(S, n - 1)
                       IN shorter \cup {Append(q, x) : q \in shorter, x \in S}
Declarations ==
  {d \in SeqsUpTo(Entries, MaxTargets) :
     \A i, j \in 1..Len(d) : i # j => d[i].name # d[j].name}

\* Object.values(builder.environments ?? {}).filter(Boolean)
IsDefined(entry) == entry.defined
definedTargets(declared) == SelectSeq(declared, IsDefined)

NamesOf(entries) == [i \in 1..Len(entries) |-> entries[i].name]

promiseAnyFulfilled(status) == \E t \in DOMAIN status : status[t] = "resolved"
\* Promise.all(promises) is fulfilled / is rejected
promiseAllFulfilled(status) == \A t \in DOMAIN status : status[t] = "resolved"
promiseAllRejected(status) == \E t \in DOMAIN status : status[t] = "rejected"

NoCopy == [ran |-> FALSE]

\* buildApp(builder) up to its await: every builder.build(target) is called
buildApp(declared) ==
  LET started == definedTargets(declared)
  IN /\ returnedConfig.kind = "config"
     /\ appPc = "idle"
     /\ targets' = declared
     /\ buildCalls' = NamesOf(started)
     /\ buildStatus' = [t \in {started[i].name : i \in 1..Len(started)} |-> "pending"]
     /\ appPc' = IF Len(started) = 0 THEN "returned" ELSE "awaiting"
     /\ UNCHANGED <<copyLog, closureVars, hostVars, historyVars, reqVars, runVars>>

\* the promise builder.build(target) returned settles
buildSettles(t, outcome) ==
  /\ t \in DOMAIN buildStatus
  /\ buildStatus[t] = "pending"
  /\ buildStatus' = [buildStatus EXCEPT ![t] = outcome]
  /\ UNCHANGED <<targets, buildCalls, appPc, copyLog, closureVars, hostVars, historyVars,
                 reqVars, runVars>>

\* buildApp after its await: copyDeployFiles('dist', projectRoot), or the
\* rejection of Promise.all leaves buildApp
buildAppResumes ==
  /\ appPc = "awaiting"
  /\ \/ /\ promiseAllRejected(buildStatus)
        /\ appPc' = "rejected"
        /\ UNCHANGED <<fs, writes, copyLog>>
     \/ /\ ~promiseAllRejected(buildStatus)
        /\ promiseAllFulfilled(buildStatus)
        /\ LET done == copyDeployFiles(fs, <<"dist">>, projectRoot)
           IN /\ fs' = done.files
              /\ writes' = writes \cup done.written
              /\ copyLog' = [ran |-> TRUE, from |-> projectRoot, threw |-> done.threw]
              /\ appPc' = IF done.threw THEN "rejected" ELSE "done"
  /\ UNCHANGED <<targets, buildCalls, buildStatus, closureVars, root, resolvable, warnings,
                 middlewares, returnedConfig, serverSsr, wrapperWrites, stage, phase, orderly,
                 reqVars, runVars>>

(************************* strings and URLs ********************************)
Alphabet == {"/", "?", "api", "x"}

IsPrefix(prefix, str) ==
  Len(prefix) <= Len(str) /\ SubSeq(str, 1, Len(prefix)) = prefix
\* str.slice(n)
Slice(str, n) == SubSeq(str, n + 1, Len(str))
\* the index of the first character of str that is in the set, Len(str) + 1 if none
RECURSIVE FirstIn(_, _, _)
FirstIn(str, set, i) ==
  IF i > Len(str) \/ str[i] \in set THEN i ELSE FirstIn(str, set, i + 1)
\* the number of "/" that str starts with
RECURSIVE LeadingSlashes(_, _)
LeadingSlashes(str, i) ==
  IF i <= Len(str) /\ str[i] = "/" THEN LeadingSlashes(str, i + 1) ELSE i - 1

\* header values of an IncomingMessage: undefined, a string, an array of strings
Undefined == [t |-> "undefined"]
Str(s) == [t |-> "string", s |-> s]
Arr(items) == [t |-> "array", items |-> items]

\* toSingleHeaderValue(value)
RECURSIVE firstNonEmpty(_, _)
firstNonEmpty(items, i) ==
  IF i > Len(items) THEN Undefined
  ELSE IF Len(items[i]) > 0 THEN Str(items[i]) ELSE firstNonEmpty(items, i + 1)
toSingleHeaderValue(value) ==
  IF value.t = "string" THEN value
  ELSE IF value.t = "array" THEN firstNonEmpty(value.items, 1)
  ELSE Undefined

\* value ?? fallback
orElse(value, fallback) == IF value.t = "undefined" THEN fallback ELSE value.s

\* new URL(input, `${protocol}://${host}`) for an http(s) base without a path.
\* The parser of a special scheme: two or more leading slashes start an
\* authority (further slashes are skipped), one leading slash an absolute path,
\* anything else a path relative to "/"; the query starts at the first "?".
\* The result is [ok |-> FALSE] when the constructor throws.
Schemes == {<<"http">>, <<"https">>}
ValidHost(host) == Len(host) > 0 /\ \A i \in 1..Len(host) : host[i] \notin {"/", "?"}

PathAndQuery(rest) ==
  LET q == FirstIn(rest, {"?"}, 1)
      before == SubSeq(rest, 1, q - 1)
  IN [path |-> IF Len(before) > 0 /\ before[1] = "/" THEN before ELSE <<"/">> \o before,
      query |-> Slice(rest, q)]

newURL(input, protocol, host) ==
  IF protocol \notin Schemes \/ ~ValidHost(host) THEN [ok |-> FALSE]
  ELSE LET n == LeadingSlashes(input, 1)
           rest == Slice(input, n)
           stop == FirstIn(rest, {"/", "?"}, 1)
           authority == SubSeq(rest, 1, stop - 1)
       IN IF n >= 2
          THEN IF ~ValidHost(authority) THEN [ok |-> FALSE]
               ELSE [ok |-> TRUE, protocol |-> protocol, host |-> authority]
                    @@ PathAndQuery(Slice(rest, stop - 1))
          ELSE [ok |-> TRUE, protocol |-> protocol, host |-> host] @@ PathAndQuery(input)

\* url.pathname, url.search, url.origin, url.toString()
pathname(url) == url.path
search(url) == IF Len(url.query) > 0 THEN <<"?">> \o url.query ELSE <<>>
origin(url) == url.protocol \o <<"://">> \o url.host
href(url) == origin(url) \o url.path \o search(url)

underAnyPath(url) == TRUE
\* incomingUrl.pathname.startsWith(basePath)
underBasePath(url) == IsPrefix(basePath, pathname(url))

\* incomingUrl.pathname.slice(basePath.length) || '/'
strippedPath(url) ==
  LET sliced == Slice(pathname(url), Len(basePath))
  IN IF Len(sliced) = 0 THEN <<"/">> ELSE sliced

\* new URL(strippedPath + incomingUrl.search, incomingUrl.origin)
targetUrl(url) == newURL(strippedPath(url) \o search(url), url.protocol, url.host)

(************************* the server response *****************************)
\* node:http ServerResponse: the calls made on it (log) and what they did
\* (st); threw says that the last call threw ERR_HTTP_HEADERS_SENT.
NoStatus == [sent |-> FALSE]
NewResponse ==
  [log |-> <<>>, threw |-> FALSE,
   st |-> [headersSent |-> FALSE, status |-> NoStatus, headers |-> <<>>, body |-> <<>>,
           ended |-> FALSE]]

\* header names are case-insensitive: the response keeps them in lower case
LowerCase(name) == IF name = "Content-Type" THEN "content-type" ELSE name

setHeader(res, name, value) ==
  LET logged == [res EXCEPT !.log = Append(@, [op |-> "setHeader", name |-> name,
                                               value |-> value])]
  IN IF res.st.headersSent THEN [logged EXCEPT !.threw = TRUE]
     ELSE [logged EXCEPT !.st.headers = (LowerCase(name) :> value) @@ @]

RECURSIVE setHeaders(_, _, _)
setHeaders(res, headers, i) ==
  IF i > Len(headers) THEN res
  ELSE setHeaders(setHeader(res, headers[i][1], headers[i][2]), headers, i + 1)

\* res.writeHead(status, headers): headers is a sequence of <<name, value>>
writeHead(res, status, headers) ==
  LET logged == [res EXCEPT !.log = Append(@, [op |-> "writeHead", status |-> status,
                                               headers |-> headers])]
      merged == setHeaders(res, headers, 1).st.headers
  IN IF res.st.headersSent THEN [logged EXCEPT !.threw = TRUE]
     ELSE [logged EXCEPT !.st.headersSent = TRUE,
                         !.st.status = [sent |-> TRUE, code |-> status],
                         !.st.headers = merged]

write(res, chunk) ==
  [res EXCEPT !.log = Append(@, [op |-> "write", chunk |-> chunk]),
              !.st.headersSent = TRUE,
              !.st.body = Append(@, chunk)]

NoChunk == [given |-> FALSE]
Some(chunk) == [given |-> TRUE, chunk |-> chunk]
\* res.end(chunk?)
end(res, last) ==
  [res EXCEPT !.log = Append(@, [op |-> "end", chunk |-> last]),
              !.st.headersSent = TRUE,
              !.st.body = IF last.given THEN Append(@, last.chunk) ELSE @,
              !.st.ended = TRUE]

\* JSON.stringify({ error: 'Internal server error' })
ErrorBody == [json |-> [error |-> "Internal server error"]]
ErrorHeaders == << <<"Content-Type", "application/json">> >>
ErrorStatus == 500

(************************* requests and answers ****************************)
HeaderNames == {"host", "x-forwarded-proto", "accept"}
Headers(host, proto, accept) ==
  ("host" :> host) @@ ("x-forwarded-proto" :> proto) @@ ("accept" :> accept)

NoHeaders == Headers(Undefined, Undefined, Undefined)
PlainHeaders == Headers(Str(<<"localhost:5173">>), Undefined, Str(<<"json">>))
ProxiedHeaders ==
  Headers(Arr(<< <<>>, <<"example.org">> >>), Str(<<"https">>),
          Arr(<< <<"a">>, <<>>, <<"b">> >>))
EmptyHostHeaders == Headers(Str(<<>>), Undefined, Undefined)
BlankHeaders == Headers(Undefined, Arr(<<>>), Arr(<< <<>> >>))

\* what the request stream emits
Data(bytes) == [ev |-> "data", chunk |-> bytes]
End == [ev |-> "end"]
Error == [ev |-> "error"]
ChunkA == <<"b1">>
ChunkB == <<"b2", "b3">>
EventSeqs ==
  {e \in {<<End>>, <<Error>>, <<Data(ChunkA), End>>, <<Data(ChunkA), Error>>,
          <<Data(ChunkA), Data(ChunkB), End>>, <<Data(ChunkA), Data(ChunkB), Data(ChunkA), End>>} :
     Len(e) <= MaxChunks + 1}

NoRequest == [present |-> FALSE]
Requests(urls, methods, headerSets, events) ==
  [present : {TRUE}, url : urls, method : methods, headers : headerSets, events : events]

\* answers of the app: a status, the headers as Headers.forEach yields them
\* (sorted by name, one entry per Set-Cookie), a body stream or none;
\* fails says that the stream errors after its chunks
Answer(status, headers, hasBody, body, fails) ==
  [status |-> status, headers |-> headers, hasBody |-> hasBody, body |-> body,
   fails |-> fails]
TypeJson == <<"content-type", "application/json">>
CookieA == <<"set-cookie", "a=1">>
CookieB == <<"set-cookie", "b=2">>
Out(bytes) == [bytes |-> bytes]
Answers ==
  {a \in {Answer(200, <<>>, FALSE, <<>>, FALSE),
          Answer(201, <<TypeJson>>, TRUE, <<Out(<<"r1">>), Out(<<"r2">>)>>, FALSE),
          Answer(200, <<TypeJson, CookieA, CookieB>>, TRUE, <<Out(<<"r1">>)>>, FALSE),
          Answer(404, <<TypeJson>>, TRUE, <<>>, FALSE),
          Answer(200, <<>>, TRUE, <<Out(<<"r1">>)>>, TRUE),
          Answer(200, <<TypeJson>>, TRUE, <<>>, TRUE),
          Answer(200, <<>>, TRUE, <<Out(<<"r1">>), Out(<<"r2">>), Out(<<"r3">>)>>, FALSE)} :
     Len(a.body) <= MaxChunks}

NoAnswer == [present |-> FALSE]
NoFetch == [called |-> FALSE, prepared |-> FALSE]

(************************* handleRequest ***********************************)
\* the part of the state one run of handleRequest works on
Now ==
  [pc |-> pc, nextCalls |-> nextCalls,
   res |-> [log |-> resLog, threw |-> FALSE, st |-> resState],
   loadLog |-> loadLog, fetched |-> fetched, response |-> response,
   chunks |-> chunks, inbox |-> inbox, moduleNode |-> moduleNode,
   loadedModule |-> loadedModule]

Fresh(events) ==
  [pc |-> "idle", nextCalls |-> <<>>, res |-> NewResponse, loadLog |-> <<>>,
   fetched |-> NoFetch, response |-> NoAnswer, chunks |-> <<>>, inbox |-> events,
   moduleNode |-> "not looked up", loadedModule |-> "not loaded"]

Commit(out) ==
  /\ pc' = out.pc
  /\ nextCalls' = out.nextCalls
  /\ resLog' = out.res.log
  /\ resState' = out.res.st
  /\ loadLog' = out.loadLog
  /\ fetched' = out.fetched
  /\ response' = out.response
  /\ chunks' = out.chunks
  /\ inbox' = out.inbox
  /\ moduleNode' = out.moduleNode
  /\ loadedModule' = out.loadedModule

\* next()
callNext(state) ==
  [state EXCEPT !.nextCalls = Append(@, "no argument"), !.pc = "done"]

catchSilently(state) == [state EXCEPT !.pc = "done"]
\* the catch block: res.writeHead(500, {...}); res.end(JSON.stringify({...})).
\* When writeHead throws, the exception leaves handleRequest.
catch(state) ==
  LET head == writeHead(state.res, ErrorStatus, ErrorHeaders)
  IN IF head.threw THEN [state EXCEPT !.res = head, !.pc = "crashed"]
     ELSE [state EXCEPT !.res = end(head, Some(ErrorBody)), !.pc = "done"]

\* toHeaderValue(value)
RECURSIVE joinNonEmpty(_, _, _)
joinNonEmpty(items, i, acc) ==
  IF i > Len(items) THEN acc
  ELSE IF Len(items[i]) = 0 THEN joinNonEmpty(items, i + 1, acc)
  ELSE joinNonEmpty(items, i + 1,
                    IF acc.t = "undefined" THEN Str(items[i])
                    ELSE Str(acc.s \o <<", ">> \o items[i]))
toHeaderValueOfStrings(value) == IF value.t = "string" THEN value ELSE Undefined
toHeaderValue(value) ==
  IF value.t = "string" THEN value
  ELSE IF value.t = "array" THEN joinNonEmpty(value.items, 1, Undefined)
  ELSE Undefined

\* the Headers handleRequest builds: headers.set(key, normalized) if (normalized)
truthy(value) == value.t = "string" /\ Len(value.s) > 0
forwardedHeaders(headers) ==
  [key \in {k \in DOMAIN headers : truthy(toHeaderValue(headers[k]))} |->
     toHeaderValue(headers[key]).s]

\* Buffer.concat(chunks)
RECURSIVE concat(_, _)
concat(bufs, i) == IF i > Len(bufs) THEN <<>> ELSE bufs[i] \o concat(bufs, i + 1)

NoBody == [given |-> FALSE]
bodyOfLastChunk(bufs) ==
  IF Len(bufs) = 0 THEN NoBody ELSE [given |-> TRUE, bytes |-> bufs[Len(bufs)]]
\* what readBody resolves with on 'end'
bodyOf(bufs) == IF Len(bufs) = 0 THEN NoBody ELSE [given |-> TRUE, bytes |-> concat(bufs, 1)]

\* methods the Request constructor refuses
ForbiddenMethods == {"TRACE"}

\* new Request(targetUrl.toString(), { method, headers, body }) and the call
\* of app.fetch(request)
callFetch(state, body) ==
  IF req.method \in ForbiddenMethods THEN catch(state)
  ELSE [state EXCEPT
          !.fetched = [called |-> TRUE, prepared |-> TRUE, url |-> state.fetched.url,
                       method |-> req.method, headers |-> forwardedHeaders(req.headers),
                       body |-> body],
          !.pc = "fetch"]

ModuleUrl == "/" \o HONO_ENTRY

\* the server hands a request to the middleware once one is registered and
\* the previous request has left it
Accepting ==
  /\ middlewares > 0
  /\ pc = "idle"
  /\ requests < MaxRequests

\* new URL(req.url, `${protocol}://${host}`)
incomingUrlOf(r) ==
  LET protocol == orElse(toSingleHeaderValue(r.headers["x-forwarded-proto"]), DefaultProtocol)
      host == orElse(toSingleHeaderValue(r.headers["host"]), DefaultHost)
  IN newURL(r.url.s, protocol, host)

\* the middleware is handed a request: handleRequest up to its first await
handleRequest(r) ==
  LET incomingUrl == incomingUrlOf(r)
      target == targetUrl(incomingUrl)
      fresh == Fresh(r.events)
  IN /\ Accepting
     /\ requests' = requests + 1
     /\ req' = r
     /\ Commit(
          IF ~truthy(r.url) \/ r.method \in {"undefined", ""} THEN callNext(fresh)
          ELSE IF ~incomingUrl.ok THEN [fresh EXCEPT !.pc = "crashed"]
          ELSE IF ~underBasePath(incomingUrl) THEN callNext(fresh)
          ELSE IF ~target.ok THEN catch(fresh)
          ELSE \* loadHonoApp: moduleGraph.getModuleByUrl(url, true)
               [fresh EXCEPT
                  !.fetched = [called |-> FALSE, prepared |-> TRUE, url |-> href(target)],
                  !.loadLog = <<[op |-> "getModuleByUrl", url |-> ModuleUrl, ssr |-> TRUE]>>,
                  !.pc = "graph"])
     /\ UNCHANGED <<closureVars, hostVars, historyVars, buildVars, runVars>>

\* if (moduleNode) moduleGraph.invalidateModule(moduleNode); loader(url)
loadSteps(moduleNodeFound) ==
  (IF moduleNodeFound = "node" THEN <<[op |-> "invalidateModule"]>> ELSE <<>>)
  \o <<[op |-> "load", url |-> ModuleUrl]>>

\* moduleGraph.getModuleByUrl settles: with a module node, with nothing, or it
\* rejects; then the loader is called
graphSettles(outcome) ==
  /\ pc = "graph"
  /\ LET found == [Now EXCEPT !.moduleNode = outcome]
     IN Commit(
          IF outcome = "rejects" THEN catch(found)
          ELSE [found EXCEPT !.loadLog = @ \o loadSteps(outcome), !.pc = "load"])
  /\ UNCHANGED <<req, requests, closureVars, hostVars, historyVars, buildVars, runVars>>

isHonoAppAlways(module) == TRUE
\* isHonoApp(loadedModule.default)
isHonoApp(module) == module = "app"

\* the loader settles: with a module whose default export is an app, with one
\* whose default export has no fetch, with one without default export, with
\* no module at all, or it rejects; then the body is read
loaderSettles(module) ==
  /\ pc = "load"
  /\ LET loaded == [Now EXCEPT !.loadedModule = module]
     IN Commit(
          IF module \in {"rejects", "undefined"} \/ ~isHonoApp(module) THEN catch(loaded)
          ELSE IF req.method \in {"GET", "HEAD"} THEN callFetch(loaded, NoBody)
          ELSE [loaded EXCEPT !.pc = "body"])
  /\ UNCHANGED <<req, requests, closureVars, hostVars, historyVars, buildVars, runVars>>

\* the request stream emits its next event to the listeners of readBody
requestEmits ==
  /\ pc = "body"
  /\ Len(inbox) > 0
  /\ LET event == Head(inbox)
         rest == [Now EXCEPT !.inbox = Tail(inbox)]
     IN Commit(
          IF event.ev = "data" THEN [rest EXCEPT !.chunks = Append(@, event.chunk)]
          ELSE IF event.ev = "end" THEN callFetch(rest, bodyOf(chunks))
          ELSE catch(rest))
  /\ UNCHANGED <<req, requests, closureVars, hostVars, historyVars, buildVars, runVars>>

\* app.fetch settles: with an answer, or it rejects; the answer's headers and
\* status are written and the first read of the body is awaited
relayHead(state, answer) ==
  LET withHeaders == setHeaders(state.res, answer.headers, 1)
      head == writeHead(withHeaders, answer.status, <<>>)
  IN IF answer.hasBody
     THEN [state EXCEPT !.res = head, !.response = answer @@ [present |-> TRUE, read |-> 0],
                        !.pc = "stream"]
     ELSE [state EXCEPT !.res = end(head, NoChunk),
                        !.response = answer @@ [present |-> TRUE, read |-> 0],
                        !.pc = "done"]

fetchSettles(rejects, answer) ==
  /\ pc = "fetch"
  /\ Commit(IF rejects THEN catch(Now) ELSE relayHead(Now, answer))
  /\ UNCHANGED <<req, requests, closureVars, hostVars, historyVars, buildVars, runVars>>

\* reader.read() settles: with the next chunk, with done, or it rejects
readSettles ==
  /\ pc = "stream"
  /\ Commit(
       IF response.read < Len(response.body)
       THEN [Now EXCEPT !.res = write(@, response.body[response.read + 1]),
                        !.response.read = @ + 1]
       ELSE IF response.fails THEN catch(Now)
       ELSE [Now EXCEPT !.res = end(@, NoChunk), !.pc = "done"])
  /\ UNCHANGED <<req, requests, closureVars, hostVars, historyVars, buildVars, runVars>>

(************************* projects ****************************************)
JsonString(s) == [t |-> "string", s |-> s]
JsonObject(fields) == [t |-> "object", fields |-> fields]
\* a file holding JSON.stringify(value)
JsonFile(value) == [kind |-> "json", value |-> value, indent |-> 0, newline |-> FALSE]
TextFile == [kind |-> "text"]
LockFile(name) == [kind |-> "lock", of |-> name]

Fixture == [name |-> JsonString("fixture"), version |-> JsonString("1.0.0")]
DevScripts == JsonObject([dev |-> JsonString("vite"), start |-> JsonString("vite preview")])
PackageFiles ==
  { Absent,
    TextFile,
    JsonFile([t |-> "array"]),
    JsonFile(JsonObject(Fixture)),
    JsonFile(JsonObject(Fixture @@ [scripts |-> DevScripts])),
    JsonFile(JsonObject(Fixture @@ [scripts |-> JsonString("none"),
                                    dependencies |-> JsonObject([hono |-> JsonString("^4")])])) }
LockSets == {{}, {"yarn.lock"}, {"package-lock.json", "bun.lockb"}}

\* the files of a project in directory r
ProjectFiles(r, entry, stray, pkg, locks) ==
  [p \in Paths |->
     IF p = EntryPathOf(r) THEN (IF entry THEN SourceFile ELSE Absent)
     ELSE IF p = WrapperPathOf(r) THEN (IF stray THEN UserFile ELSE Absent)
     ELSE IF p = join(r, <<"package.json">>) THEN pkg
     ELSE IF \E n \in locks : p = join(r, <<n>>) THEN LockFile(p[Len(p)])
     ELSE Absent]

Packages == {"hono", "@hono/node-server"}

(************************* specifications **********************************)
\* the state honoPlugin(options) returns in, in a project of the given kind
InitIn(optionSets, roots, projects, installed) ==
  /\ options \in optionSets
  /\ root \in roots
  /\ fs \in {ProjectFiles(root, f.entry, f.stray, f.pkg, f.locks) : f \in projects}
  /\ resolvable \in installed
  /\ projectRoot = Cwd
  /\ wrapperPath = join(Cwd, <<WRAPPER_FILE>>)
  /\ honoEntryPath = join(Cwd, <<HONO_ENTRY>>)
  /\ hasHonoEntry = FALSE
  /\ runCommand = "unknown"
  /\ wrapperPrimed = FALSE
  /\ environmentState = {}
  /\ warnings = {}
  /\ middlewares = 0
  /\ returnedConfig = NotCalled
  /\ serverSsr = "unset"
  /\ writes = {}
  /\ wrapperWrites = 0
  /\ stage = "new"
  /\ phase = NoPhase
  /\ orderly = TRUE
  /\ targets = <<>>
  /\ buildCalls = <<>>
  /\ buildStatus = <<>>
  /\ appPc = "idle"
  /\ copyLog = NoCopy
  /\ req = NoRequest
  /\ pc = "idle"
  /\ nextCalls = <<>>
  /\ resLog = <<>>
  /\ resState = NewResponse.st
  /\ loadLog = <<>>
  /\ fetched = NoFetch
  /\ response = NoAnswer
  /\ chunks = <<>>
  /\ inbox = <<>>
  /\ moduleNode = "not looked up"
  /\ loadedModule = "not loaded"
  /\ requests = 0
  /\ applied = NotApplied
  /\ launched = NotStarted

Commands == {"build", "serve", "undefined"}

\* the hooks, called by a host in any order with any arguments
Hooks ==
  \/ \E command \in Commands, rootGiven \in BOOLEAN : config(command, rootGiven)
  \/ \E hasServerBuild \in BOOLEAN : configResolved(hasServerBuild)
  \/ \E name \in {"client", "server"} : configEnvironment(name)
  \/ \E ctx \in Contexts : buildStart(ctx)
  \/ \E ctx \in Contexts : closeBundle(ctx)
  \/ configureServer

\* plugin lifecycle: any project, any order of hooks
Init ==
  InitIn(OptionSets, Roots,
         [entry : BOOLEAN, stray : BOOLEAN, pkg : {JsonFile(JsonObject(Fixture))},
          locks : {{}}],
         {Packages, {"hono"}, {}})
Next == Hooks
Spec == Init /\ [][Next]_vars

\* a build: config and configResolved, then the builder's buildApp
InitBuildApp ==
  InitIn({[basePath |-> NoOption, port |-> NoOption]}, Roots,
         [entry : {TRUE}, stray : {FALSE}, pkg : PackageFiles, locks : LockSets],
         {Packages})
BuildHooks ==
  /\ appPc = "idle"
  /\ \/ \E rootGiven \in BOOLEAN : config("build", rootGiven)
     \/ configResolved(TRUE)
NextBuildApp ==
  \/ BuildHooks
  \/ \E declared \in Declarations : buildApp(declared)
  \/ \E t \in Envs, outcome \in {"resolved", "rejected"} : buildSettles(t, outcome)
  \/ buildAppResumes
SpecBuildApp == InitBuildApp /\ [][NextBuildApp]_vars

\* a host that filters its environments, builds, and starts the built server
InitRuntime ==
  InitIn(OptionSets, Roots,
         [entry : {TRUE}, stray : BOOLEAN, pkg : {JsonFile(JsonObject(Fixture))},
          locks : {{}}],
         {Packages})
NextRuntime ==
  \/ BuildHooks
  \/ \E name \in EnvNames : hostFilters(name)
  \/ \E globals \in Runtimes, portEnv \in PortEnvs : serverStarts(globals, portEnv)
SpecRuntime == InitRuntime /\ [][NextRuntime]_vars

\* a dev server: the hooks of `vite dev`, then requests
InitDev ==
  InitIn(OptionSets, {Cwd},
         [entry : {TRUE}, stray : {FALSE}, pkg : {JsonFile(JsonObject(Fixture))},
          locks : {{}}],
         {Packages})
DevHooks ==
  /\ requests = 0
  /\ \/ stage = "new" /\ \E rootGiven \in BOOLEAN : config("serve", rootGiven)
     \/ stage = "configured" /\ configResolved(TRUE)
     \/ stage = "resolved" /\ configureServer

Methods == {"GET", "HEAD", "POST", "TRACE", "undefined"}
\* req.url is missing, is empty, or is a request target in origin form
SampleUrls ==
  {Undefined, Str(<<>>)} \cup {Str(<<"/">> \o u) : u \in SeqsUpTo(Alphabet, 2)}
  \cup {Str(<<"/", "api", "/", "x">>), Str(<<"/", "api", "x", "?", "x">>),
        Str(<<"/", "api", "/", "/">>), Str(<<"/", "x", "/", "api", "?", "x">>),
        Str(<<"/", "x", "?">>), Str(<<"/", "/", "x", "/", "api">>)}
DevRequests ==
  {r \in Requests(SampleUrls, Methods, {NoHeaders, ProxiedHeaders, EmptyHostHeaders},
                  EventSeqs) :
     r.method \in {"GET", "HEAD", "undefined"} => r.events \in {<<End>>, <<Data(ChunkA), End>>}}
Modules == {"app", "no fetch", "null default", "no default", "undefined", "rejects"}

\* the handler has returned (or thrown) and the server lets go of the request
\* and of its response
requestLeaves ==
  /\ pc \in {"done", "crashed"}
  /\ requests < MaxRequests
  /\ req' = NoRequest
  /\ Commit(Fresh(<<>>))
  /\ UNCHANGED <<closureVars, hostVars, historyVars, buildVars, runVars, requests>>

Handling(requestSet, graphOutcomes, modules, answers) ==
  \/ Accepting /\ \E r \in requestSet : handleRequest(r)
  \/ \E outcome \in graphOutcomes : graphSettles(outcome)
  \/ \E module \in modules : loaderSettles(module)
  \/ requestEmits
  \/ \E rejects \in BOOLEAN, answer \in answers :
       (rejects => answer = CHOOSE a \in answers : TRUE) /\ fetchSettles(rejects, answer)
  \/ readSettles
  \/ requestLeaves

NextDev ==
  \/ DevHooks
  \/ Handling(DevRequests, {"node", "null", "rejects"}, Modules, Answers)
SpecDev == InitDev /\ [][NextDev]_vars

\* the same dev server when every promise the handler awaits settles and the
\* request stream, once readBody listens to it, emits its events
SpecDevFair ==
  /\ InitDev /\ [][NextDev]_vars
  /\ WF_vars(\E outcome \in {"node", "null", "rejects"} : graphSettles(outcome))
  /\ WF_vars(\E module \in Modules : loaderSettles(module))
  /\ WF_vars(requestEmits)
  /\ WF_vars(\E rejects \in BOOLEAN, answer \in Answers : fetchSettles(rejects, answer))
  /\ WF_vars(readSettles)

\* `vite dev` or a host that never calls config: the hooks but closeBundle in
\* any order, never with the command 'build', and requests among them
InitServe ==
  InitIn(OptionSets, Roots,
         [entry : BOOLEAN, stray : BOOLEAN, pkg : {JsonFile(JsonObject(Fixture))},
          locks : {{}}],
         {Packages})
ServeHooks ==
  \/ \E command \in {"serve", "undefined"}, rootGiven \in BOOLEAN : config(command, rootGiven)
  \/ \E hasServerBuild \in BOOLEAN : configResolved(hasServerBuild)
  \/ \E name \in {"client", "server"} : configEnvironment(name)
  \/ \E ctx \in Contexts : buildStart(ctx)
  \/ configureServer
ServeRequests ==
  Requests({Str(<<"/", "api", "/", "x">>), Str(<<"/", "x">>)}, {"GET", "POST"}, {NoHeaders},
           {<<Data(ChunkA), End>>})
NextServe ==
  \/ ServeHooks
  \/ Handling(ServeRequests, {"node"}, {"app", "rejects"},
              {Answer(200, <<TypeJson>>, TRUE, <<Out(<<"r1">>)>>, FALSE)})
SpecServe == InitServe /\ [][NextServe]_vars

\* a dev server that routes every URL of the alphabet to an app that answers
AllUrls == {Str(<<"/">> \o u) : u \in SeqsUpTo(Alphabet, MaxUrlLen - 1)}
UrlRequests ==
  Requests(AllUrls, {"GET", "POST"},
           {NoHeaders, PlainHeaders, ProxiedHeaders, EmptyHostHeaders, BlankHeaders},
           {<<End>>})
NextUrl ==
  \/ DevHooks
  \/ Handling(UrlRequests, {"null"}, {"app"},
              {Answer(200, <<TypeJson>>, TRUE, <<Out(<<"r1">>)>>, FALSE)})
SpecUrl == InitDev /\ [][NextUrl]_vars

(************************* the dev middleware: claims **********************)
\* the request has a url and a method
Addressed(r) == truthy(r.url) /\ r.method # "undefined"
\* the handler has returned or thrown
Finished == req.present /\ pc \in {"done", "crashed"}
\* the pathname of the request starts with basePath
UnderBase(r) ==
  Addressed(r) /\ incomingUrlOf(r).ok /\ IsPrefix(basePath, pathname(incomingUrlOf(r)))
OutsideBase(r) ==
  Addressed(r) /\ incomingUrlOf(r).ok /\ ~IsPrefix(basePath, pathname(incomingUrlOf(r)))

Received(header) ==
  /\ header[1] \in DOMAIN resState.headers
  /\ resState.headers[header[1]] = header[2]

\* C2: when the app's fetch returned a response R for a request under
\* basePath (R's body stream ending without an error), next() is not called
\* and the server response has R's status, every header of R and R's chunks
\* in their order, and is ended.
RelaysWholeResponse ==
  Finished /\ response.present /\ ~response.fails =>
    /\ nextCalls = <<>>
    /\ resState.status = [sent |-> TRUE, code |-> response.status]
    /\ \A i \in 1..Len(response.headers) : Received(response.headers[i])
    /\ resState.body = response.body
    /\ resState.ended

\* the pathname is basePath or lies under basePath followed by "/"
Mounted(r) ==
  LET path == pathname(incomingUrlOf(r))
  IN path = basePath \/ IsPrefix(basePath \o <<"/">>, path)

\* C3: the URL handed to fetch is the origin of the incoming URL, then the
\* pathname without its leading basePath ("/" when nothing is left), then
\* the query string (stated for the pathnames that are basePath or lie under
\* basePath + "/").
ForwardsStrippedUrl ==
  fetched.called /\ Mounted(req) =>
    LET incoming == incomingUrlOf(req)
        rest == Slice(pathname(incoming), Len(basePath))
    IN fetched.url = origin(incoming) \o (IF rest = <<>> THEN <<"/">> ELSE rest)
                                      \o search(incoming)

\* C4: exactly the requests whose pathname is basePath or lies under
\* basePath + "/" are forwarded; every other request falls through to next().
ForwardsExactlyTheMount ==
  Finished /\ Addressed(req) /\ incomingUrlOf(req).ok =>
    IF Mounted(req) THEN nextCalls = <<>>
    ELSE nextCalls = <<"no argument">> /\ ~fetched.prepared

\* C5: a request under basePath whose handling ends without a response of the
\* app (loading the module, reading the body, building the Request or fetch
\* failed) is answered with status 500, Content-Type application/json and the
\* body {"error":"Internal server error"}; the response is ended and next()
\* is not called.
FailureAnswers500 ==
  Finished /\ UnderBase(req) /\ ~response.present =>
    /\ pc = "done"
    /\ nextCalls = <<>>
    /\ resState = [headersSent |-> TRUE,
                   status |-> [sent |-> TRUE, code |-> 500],
                   headers |-> ("content-type" :> "application/json"),
                   body |-> << [json |-> [error |-> "Internal server error"]] >>,
                   ended |-> TRUE]

FetchRejected ==
  /\ Finished /\ UnderBase(req) /\ ~response.present
  /\ fetched.called
  /\ fetched.body.given
  /\ resState.ended

(************************* the hooks: claims *******************************)
EntryMissing == ~isFile(fs, EntryPathOf(root))
EntryPresent == isFile(fs, EntryPathOf(root))
\* the message says that hono/index.ts was not found
SaysNotFound(message) ==
  \E i \in 1..(Len(message) - 1) : message[i] = "hono/index.ts" /\ message[i + 1] = " not found"

\* C6: when hono/index.ts is not in the project root, config returns an
\* empty configuration, configureServer registers no middleware and warns
\* that hono/index.ts was not found, and no hook ever writes a file.
MissingEntryDisablesPlugin ==
  /\ [](EntryMissing =>
          /\ DOMAIN returnedConfig = {"kind"}
          /\ middlewares = 0
          /\ writes = {})
  /\ [][EntryMissing /\ (\E command \in Commands, rootGiven \in BOOLEAN :
                           config(command, rootGiven))
          => returnedConfig' = [kind |-> "empty"]]_vars
  /\ [][EntryMissing /\ configureServer
          => /\ \E w \in warnings' \ {EntryNotFoundResolved} : SaysNotFound(w)
             /\ middlewares' = 0]_vars

WarnedAndWroteNothing ==
  /\ EntryMissing
  /\ returnedConfig = [kind |-> "empty"]
  /\ runCommand = "build"
  /\ stage = "resolved"
  /\ phase["server"] = "started"
  /\ \E w \in warnings : SaysNotFound(w) /\ w[4] = ". Hono API middleware disabled."
  /\ writes = {}

\* one build of a project that has hono/index.ts, the hooks in Vite's order
BuildWithEntry ==
  /\ orderly /\ stage = "resolved"
  /\ runCommand = "build" /\ returnedConfig.kind = "config"
  /\ EntryPresent
WrapperAtRoot == isFile(fs, join(root, <<".hono-server.mjs">>))
AllClosed ==
  /\ \E c \in Contexts : phase[c] = "closed"
  /\ \A c \in Contexts : phase[c] # "started"

AppliesToServerAndSsr ==
  \A name \in DOMAIN applied : applied[name] <=> name \in {"server", "ssr"}

AskedAboutEveryEnvironment ==
  /\ DOMAIN applied = {"client", "ssr", "server", "custom"}
  /\ applied["ssr"] /\ ~applied["custom"]

(************************* buildApp: claims ********************************)
\* the place of an environment in the declaration
PlaceOf(name) == CHOOSE i \in 1..Len(targets) : targets[i].name = name
\* a file of a dist directory
InDist(path) == Len(path) > 2 /\ path[Len(path) - 1] = "dist"

\* C9: buildApp calls builder.build once for every defined environment, in
\* the order of their declaration; deploy files are written only when every
\* one of those builds has resolved, and none is written when one rejected.
BuildsAllThenCopies ==
  /\ appPc # "idle" =>
       /\ \A i \in 1..Len(targets) :
            Cardinality({k \in 1..Len(buildCalls) : buildCalls[k] = targets[i].name})
              = IF targets[i].defined THEN 1 ELSE 0
       /\ \A k \in 1..Len(buildCalls) : \E i \in 1..Len(targets) : targets[i].name = buildCalls[k]
       /\ \A j, k \in 1..Len(buildCalls) :
            j < k => PlaceOf(buildCalls[j]) < PlaceOf(buildCalls[k])
  /\ (copyLog.ran \/ \E path \in writes : InDist(path)) =>
       \A t \in DOMAIN buildStatus : buildStatus[t] = "resolved"
  /\ (\E t \in DOMAIN buildStatus : buildStatus[t] = "rejected") =>
       /\ \A path \in writes : ~InDist(path)
       /\ \A path \in DOMAIN fs : InDist(path) => fs[path].kind = "absent"

BuiltBothAndCopied ==
  /\ appPc = "done"
  /\ buildCalls = <<"server", "client">>
  /\ \A t \in {"client", "server"} : buildStatus[t] = "resolved"
  /\ \E path \in writes : InDist(path) /\ path[Len(path)] = "yarn.lock"

\* C10: the package.json written to the deploy directory has the fields of
\* the project's package.json with their values, except scripts, which is
\* {"start": "node server.js"} whether the project declared scripts or not;
\* without a package.json in the project, none is written.
DeployedPackageJson ==
  copyLog.ran =>
    LET source == fs[join(root, <<"package.json">>)]
        deployed == {path \in DOMAIN fs : InDist(path) /\ path[Len(path)] = "package.json"
                                           /\ (path \in writes \/ fs[path].kind # "absent")}
    IN IF source.kind = "absent" THEN deployed = {}
       ELSE IF source.kind = "json" /\ source.value.t = "object"
       THEN /\ deployed # {}
            /\ \A path \in deployed :
                 /\ fs[path].kind = "json"
                 /\ fs[path].value.t = "object"
                 /\ DOMAIN fs[path].value.fields = DOMAIN source.value.fields \cup {"scripts"}
                 /\ \A f \in DOMAIN source.value.fields \ {"scripts"} :
                      fs[path].value.fields[f] = source.value.fields[f]
                 /\ fs[path].value.fields["scripts"]
                      = [t |-> "object",
                         fields |-> [start |-> [t |-> "string", s |-> "node server.js"]]]
       ELSE TRUE

ScriptsReplaced ==
  /\ copyLog.ran
  /\ appPc = "done"
  /\ root = OtherRoot
  /\ fs[join(root, <<"package.json">>)].kind = "json"
  /\ {"scripts", "dependencies"} \subseteq DOMAIN fs[join(root, <<"package.json">>)].value.fields
  /\ \E path \in writes : InDist(path) /\ path[Len(path)] = "package.json"


\* C12: a buildStart call whose environment is named neither 'server' nor
\* 'ssr' never writes the wrapper file, whatever the state of the plugin: the
\* files are after the call what they were before it.
OtherBuildStartWritesNothing ==
  [][\A ctx \in Envs \ {"server", "ssr"} : buildStart(ctx) => fs' = fs]_vars

(************************* the generated server: claims ********************)
\* the options the plugin was made with, '/api' and 4173 where omitted
MountOfOptions == IF options.basePath.given THEN options.basePath.value ELSE <<"/", "api">>
PortOfOptions == IF options.port.given THEN options.port.value ELSE 4173
RuntimeNames == {"deno", "bun", "node"}

\* C13: the wrapper the plugin writes mounts the api on basePath and every
\* runtime block falls back to the configured port, '/api' and 4173 when the
\* options are omitted; the started server has the api routed on basePath and
\* listens on the number PORT holds in the environment of its runtime, on
\* the configured port when PORT is not set.
WrapperMountsAndListens ==
  /\ \A path \in DOMAIN fs : fs[path].kind = "wrapper" =>
        /\ fs[path].route = MountOfOptions
        /\ \A r \in RuntimeNames : fs[path].blocks[r].fallback = PortOfOptions
  /\ launched.ran =>
        /\ launched.calls[1] = [op |-> "route", path |-> MountOfOptions]
        /\ launched.portFrom = (IF launched.runtime = "deno" THEN "Deno.env" ELSE "process.env")
        /\ \A i \in 1..Len(launched.servers) :
              launched.servers[i].port =
                IF ~launched.portEnv.set THEN PortOfOptions
                ELSE IF launched.portEnv.value = "8080" THEN 8080 ELSE 0

ListensOnPortOfEnvironment ==
  /\ launched.ran /\ launched.portEnv.set /\ launched.portEnv.value = "8080"
  /\ launched.servers[1].port = 8080
  /\ ~options.basePath.given /\ ~options.port.given
  /\ launched.calls[1].path = <<"/", "api">>

\* C14: the started server runs the Deno block when Deno is defined, else the
\* Bun block when Bun is defined, else the Node.js block; exactly one server
\* listens; and after the route of the api it registers the static files of
\* './frontend' and then index.html of './frontend' for the GET requests
\* nothing else matched.
OneServerOfTheRuntime ==
  launched.ran =>
    /\ launched.runtime = (IF "Deno" \in launched.globals THEN "deno"
                           ELSE IF "Bun" \in launched.globals THEN "bun" ELSE "node")
    /\ Len(launched.servers) = 1
    /\ launched.servers[1].by =
          (IF "Deno" \in launched.globals THEN "Deno.serve"
           ELSE IF "Bun" \in launched.globals THEN "export default { port, fetch }"
           ELSE "serve")
    /\ Len(launched.calls) = 3
    /\ launched.calls[1].op = "route"
    /\ launched.calls[2] = [op |-> "use", path |-> "*", root |-> "./frontend", file |-> "any"]
    /\ launched.calls[3] = [op |-> "get", path |-> "*", root |-> "./frontend",
                            file |-> "index.html"]

StartedOnBun ==
  /\ launched.ran /\ launched.globals = {"Bun"} /\ launched.runtime = "bun"
  /\ Len(launched.servers) = 1

(************************* missing packages: claims ************************)
\* C15: when hono/index.ts exists and the package 'hono' does not resolve,
\* config throws and returns no configuration; when 'hono' resolves and
\* '@hono/node-server' does not, configResolved logs the warning about the
\* optional dependency, and in a build the wrapper is in its place after it.
MissingPackages ==
  /\ [][\A command \in {"build", "serve", "undefined"}, rootGiven \in BOOLEAN :
          config(command, rootGiven) /\ hasHonoEntry' /\ "hono" \notin resolvable
            => returnedConfig' = [kind |-> "thrown"]]_vars
  /\ [][\A hasServerBuild \in BOOLEAN :
          configResolved(hasServerBuild) /\ hasHonoEntry'
            /\ resolvable = {"hono"}
            => /\ NodeServerMissing \in warnings'
               /\ runCommand = "build" =>
                    fs'[Resolve(wrapperPath')] = generateWrapper(basePath, port)]_vars

WarnedAndWroteWrapper ==
  /\ resolvable = {"hono"}
  /\ stage = "resolved" /\ runCommand = "build"
  /\ returnedConfig.kind = "config"
  /\ NodeServerMissing \in warnings
  /\ fs[Resolve(wrapperPath)].kind = "wrapper"
  /\ Resolve(wrapperPath) \in writes

(************************* the loaded module: claims ***********************)
\* modules whose default export is missing, is null, or has no fetch function
NotAnApp == {"no default", "null default", "no fetch"}

CallsOf(op) == {i \in 1..Len(resLog) : resLog[i].op = op}

\* C17: for a request under basePath the handler has finished with, the calls
\* on the response are setHeader any number of times, then writeHead once,
\* then write any number of times, then end once, also when the body stream
\* of the app's response fails after the status was written.
ResponseCallsInOrder ==
  Finished /\ UnderBase(req) =>
    /\ Cardinality(CallsOf("writeHead")) = 1
    /\ Cardinality(CallsOf("end")) = 1
    /\ \E h \in CallsOf("writeHead") :
         /\ \A i \in 1..(h - 1) : resLog[i].op = "setHeader"
         /\ \A i \in (h + 1)..(Len(resLog) - 1) : resLog[i].op = "write"
         /\ resLog[Len(resLog)].op = "end"

\* C18: when the promises of the loader, of fetch and of the reads of the
\* response body settle, the response of every request under basePath is
\* eventually ended, whatever its method and whatever its request stream
\* emits once the body is read.  The n-th request is the one the handler
\* works on while requests = n.
ResponseEventuallyEnded ==
  \A n \in 1..MaxRequests :
    (requests = n /\ req.present /\ UnderBase(req)) ~> (requests = n /\ resState.ended)

(************************* reloading the module: claims ********************)
\* the places of the log of the module graph and the loader where `op` was called
LoadCallsOf(op) == {i \in 1..Len(loadLog) : loadLog[i].op = op}

\* C19: for every request under basePath the handler has finished with (the
\* lookup in the module graph having resolved), the loader was called exactly
\* once, for '/hono/index.ts', in the course of that request, and when the
\* module graph had a node for that URL the node was invalidated before that
\* call.
ReloadsEveryRequest ==
  Finished /\ UnderBase(req) /\ moduleNode # "rejects" =>
    /\ Cardinality(LoadCallsOf("load")) = 1
    /\ \A i \in LoadCallsOf("load") :
         /\ loadLog[i].url = "/hono/index.ts"
         /\ moduleNode = "node" => \E j \in 1..(i - 1) : loadLog[j].op = "invalidateModule"

(************************* the origin of the forwarded URL: claims *********)
\* C20: for every request under basePath the URL built for the app has the
\* scheme, host and port of the reconstructed incoming URL: it is that origin
\* followed by a path.
ForwardsToSameOrigin ==
  req.present /\ UnderBase(req) /\ fetched.prepared =>
    IsPrefix(origin(incomingUrlOf(req)) \o <<"/">>, fetched.url)

(************************* forwarded headers: claims ***********************)
\* the non-empty entries of an array value, in their order
NonEmptyEntries(items) == SelectSeq(items, LAMBDA entry : Len(entry) > 0)
\* the entries joined by ', '
RECURSIVE JoinedByComma(_)
JoinedByComma(parts) ==
  IF Len(parts) = 1 THEN parts[1]
  ELSE parts[1] \o <<", ">> \o JoinedByComma(Tail(parts))

FirstValueOr(value, fallback) ==
  IF value.t = "string" /\ Len(value.s) > 0 THEN value.s
  ELSE IF value.t = "array" /\ Len(NonEmptyEntries(value.items)) > 0
  THEN NonEmptyEntries(value.items)[1]
  ELSE fallback

\* C22: the incoming URL of a request that has a url and a method is
\* <proto>://<host><req.url>: its origin is the first non-empty value of
\* x-forwarded-proto ('http' when there is none), '://', and the first
\* non-empty value of host ('localhost:5173' when there is none), and its
\* pathname and query are req.url.
ReconstructsIncomingUrl ==
  req.present /\ Addressed(req) =>
    LET url == incomingUrlOf(req)
    IN /\ url.ok
       /\ origin(url) = FirstValueOr(req.headers["x-forwarded-proto"], <<"http">>)
                          \o <<"://">>
                          \o FirstValueOr(req.headers["host"], <<"localhost:5173">>)
       /\ pathname(url) \o (IF \E i \in 1..Len(req.url.s) : req.url.s[i] = "?"
                             THEN <<"?">> \o url.query ELSE <<>>)
            = req.url.s

(************************* the forwarded body: claims **********************)
\* the bytes of the 'data' events a stream emits before its 'end' or 'error'
RECURSIVE BytesBeforeEnd(_)
BytesBeforeEnd(events) ==
  IF Len(events) = 0 \/ events[1].ev # "data" THEN <<>>
  ELSE events[1].chunk \o BytesBeforeEnd(Tail(events))
Bodyless == {"GET", "HEAD"}

\* C23: a forwarded GET or HEAD request has no body and nothing of its
\* request stream was consumed; a forwarded request of another method has as
\* body the chunks its stream emitted before 'end', concatenated in their
\* order, and no body when there was no chunk; a request of another method
\* whose stream emits 'error' is not forwarded and is answered with 500.
ForwardsBody ==
  /\ fetched.called /\ req.method \in Bodyless =>
        ~fetched.body.given /\ inbox = req.events
  /\ fetched.called /\ req.method \notin Bodyless =>
        /\ req.events[Len(req.events)].ev = "end"
        /\ inbox = <<>>
        /\ IF req.events[1].ev = "data"
           THEN fetched.body = [given |-> TRUE, bytes |-> BytesBeforeEnd(req.events)]
           ELSE ~fetched.body.given
  /\ Finished /\ UnderBase(req) /\ req.method \notin Bodyless
       /\ req.events[Len(req.events)].ev = "error" =>
        /\ ~fetched.called
        /\ resState.status = [sent |-> TRUE, code |-> 500]
        /\ resState.ended

ForwardedTwoChunks ==
  /\ fetched.called /\ req.method = "POST"
  /\ req.events = <<Data(<<"b1">>), Data(<<"b2", "b3">>), End>>
  /\ fetched.body = [given |-> TRUE, bytes |-> <<"b1", "b2", "b3">>]

ServeWritesNoWrapper ==
  /\ wrapperWrites = 0
  /\ writes = {}
  /\ \A path \in DOMAIN fs : fs[path].kind # "wrapper"
  /\ serverSsr \in {"unset", "hono/index.ts"}
  /\ returnedConfig.kind = "config" => returnedConfig.server.ssr = "hono/index.ts"

ServedWithoutWrapper ==
  /\ runCommand = "serve" /\ hasHonoEntry
  /\ phase["server"] = "started"
  /\ serverSsr = "hono/index.ts"
  /\ Finished /\ fetched.called
  /\ writes = {}

(************************* cleanup: claims *********************************)
\* C26: closeBundle, with or without an environment context, leaves the
\* files as they are in every state in which the plugin has not written the
\* wrapper since the start or since the last removal.
CloseBundleSparesOtherFiles ==
  [][\A ctx \in Contexts : closeBundle(ctx) /\ wrapperWrites = 0 => fs' = fs]_vars

\* C27: in a build in which only the environments 'server' and 'ssr' run
\* their hooks, in any interleaving, the wrapper file is there while one of
\* them has run buildStart and not yet its closeBundle.
WrapperStaysWhileBuilding ==
  /\ BuildWithEntry
  /\ \A c \in Contexts \ {"server", "ssr"} : phase[c] = "none"
  /\ \E c \in {"server", "ssr"} : phase[c] = "started"
  => WrapperAtRoot

(************************* the place of the deploy files: claims ***********)
\* C28: once buildApp has copied the deploy files, they were read from the
\* project root and every file written lies in the dist directory of the
\* project root, also when the project root is not the working directory.
DeploysIntoDistOfRoot ==
  copyLog.ran =>
    /\ copyLog.from = root
    /\ \A path \in writes :
         InDist(path) => IsPrefix(join(root, <<"dist">>), path)

====
